---------------------------- MODULE Spec2Model ----------------------------
(***************************************************************************)
(* The two terminology tools of tx-tools/src/server.ts (lookup-code and    *)
(* validate-code) and the SSE host of fhir-tools/src/sse.ts.               *)
(*                                                                         *)
(* Texts that the handlers only pass around or concatenate (messages,      *)
(* bodies, the response text) are TLA+ strings.  Texts that are encoded or *)
(* quoted (the tool arguments) are sequences of chunks: a chunk is one     *)
(* reserved character ("&", "=", "+", ...) or a run of characters that     *)
(* every encoder here leaves alone ("version", "26", ...).                 *)
(***************************************************************************)
EXTENDS Integers, Sequences, FiniteSets, TLC

VARIABLES
  TX_SERVER,   \* process.env.TX_SERVER, a record without "value" when unset
  inv,         \* the tool invocations in progress, by slot
  transport,   \* sse.ts: the module-level transport variable
  requests     \* sse.ts: the requests served so far, in order

vars == <<TX_SERVER, inv, transport, requests>>

(***************************************************************************)
(* Bounds of the model.                                                    *)
(***************************************************************************)
MaxContains == 2   \* longest expansion.contains list of a response body
MaxParams == 2     \* longest parameter list of a response body
MaxInv == 2        \* concurrent invocations of SpecConc
MaxEvents == 4     \* requests served by the SSE host of SpecSSE

Has(r, f) == f \in DOMAIN r

-----------------------------------------------------------------------------
(***************************************************************************)
(* Strings                                                                 *)
(***************************************************************************)

\* The text of a chunk sequence.
RECURSIVE Join(_)
Join(cs) == IF cs = <<>> THEN "" ELSE Head(cs) \o Join(Tail(cs))

\* Chunks that application/x-www-form-urlencoded serialization rewrites,
\* with the two hex digits of their percent-encoding.
PercentCode ==
  [c \in {"&", "=", "+", "%", "?", "/", ":", "\"", "\\"} |->
     CASE c = "&" -> "26" [] c = "=" -> "3D" [] c = "+" -> "2B"
       [] c = "%" -> "25" [] c = "?" -> "3F" [] c = "/" -> "2F"
       [] c = ":" -> "3A" [] c = "\"" -> "22" [] c = "\\" -> "5C"]

\* URLSearchParams serialization of one name or value.
RECURSIVE FormEncode(_)
FormEncode(cs) ==
  IF cs = <<>> THEN <<>>
  ELSE LET c == Head(cs)
           e == IF c = " " THEN <<"+">>
                ELSE IF c \in DOMAIN PercentCode THEN <<"%", PercentCode[c]>>
                ELSE <<c>>
       IN e \o FormEncode(Tail(cs))

\* URLSearchParams.toString(): name=value pairs joined by "&".
RECURSIVE FormSerialize(_)
FormSerialize(list) ==
  IF list = <<>> THEN <<>>
  ELSE LET p == Head(list)
           one == <<p.name>> \o <<"=">> \o FormEncode(p.value)
       IN IF Len(list) = 1 THEN one
          ELSE one \o <<"&">> \o FormSerialize(Tail(list))

\* URLSearchParams.set(name, value): the first pair of that name takes the
\* value and the later ones go; without one, the pair is appended.
SearchParamsSet(list, name, value) ==
  IF \E k \in 1..Len(list) : list[k].name = name
  THEN LET first == CHOOSE k \in 1..Len(list) :
                      /\ list[k].name = name
                      /\ \A j \in 1..(k - 1) : list[j].name # name
           keep == SelectSeq([k \in 1..Len(list) |-> [at |-> k, p |-> list[k]]],
                             LAMBDA e : e.p.name # name \/ e.at = first)
       IN [k \in 1..Len(keep) |->
             IF keep[k].at = first THEN [name |-> name, value |-> value]
             ELSE keep[k].p]
  ELSE Append(list, [name |-> name, value |-> value])


\* JSON.stringify of a string: quotes and backslashes are escaped.
RECURSIVE JSONescape(_)
JSONescape(cs) ==
  IF cs = <<>> THEN ""
  ELSE LET c == Head(cs)
       IN (IF c = "\"" THEN "\\\"" ELSE IF c = "\\" THEN "\\\\" ELSE c)
            \o JSONescape(Tail(cs))

JSONquote(cs) == "\"" \o JSONescape(cs) \o "\""

\* One member of a JSON object: [key, str], [key, bool], or [key] alone for
\* a member whose value is undefined.
MemberDefined(m) == Has(m, "str") \/ Has(m, "bool")

MemberText(m) ==
  "  \"" \o m.key \o "\": " \o
  (IF Has(m, "str") THEN JSONquote(m.str)
   ELSE IF m.bool THEN "true" ELSE "false")

RECURSIVE MembersText(_)
MembersText(ms) ==
  IF Len(ms) = 1 THEN MemberText(Head(ms))
  ELSE MemberText(Head(ms)) \o ",\n" \o MembersText(Tail(ms))

\* JSON.stringify(obj, null, 2) of an object given as its members in
\* insertion order: members that are undefined are left out.
JSONstringify(obj) ==
  LET ms == SelectSeq(obj, MemberDefined)
  IN IF ms = <<>> THEN "{}" ELSE "{\n" \o MembersText(ms) \o "\n}"

-----------------------------------------------------------------------------
(***************************************************************************)
(* Errors and URLs                                                         *)
(***************************************************************************)

\* error instanceof Error ? error.message : String(error).  A thrown Error
\* is [message]; any other thrown value is [value], its String() text.
ErrorText(error) ==
  IF Has(error, "message") THEN error.message ELSE error.value

\* process.env.TX_SERVER ?? "https://tx.ontoserver.csiro.au/fhir": only an
\* unset variable takes the default, an empty one does not.
ServerBase(env) ==
  IF Has(env, "value") THEN env.value
  ELSE [scheme |-> "https", rest |-> "tx.ontoserver.csiro.au/fhir"]

\* new URL(`${serverBase}<path>`): a TypeError unless the text is an
\* absolute URL, otherwise a URL with an empty query.
NewURL(serverBase, path) ==
  IF serverBase.scheme = ""
  THEN [error |-> [message |-> "Invalid URL"]]
  ELSE [url |-> [resource |-> serverBase.scheme \o "://" \o serverBase.rest \o path,
                 searchParams |-> <<>>]]

\* url.toString(), as handed to fetch: the resource and the serialized query.
URLtoString(url) ==
  [resource |-> url.resource, search |-> FormSerialize(url.searchParams)]

\* response.ok of node-fetch.
ResponseOk(response) == response.status >= 200 /\ response.status < 300

\* The Tool Response envelope.
TextResult(text) == [content |-> <<[type |-> "text", text |-> text]>>]

ErrorResult(text) ==
  [content |-> <<[type |-> "text", text |-> text]>>, isError |-> TRUE]

\* A variant that leaves the status out of the message.
ServerErrorTextNoStatus(status, errorText) ==
  "Terminology server error: " \o errorText

\* `Terminology server error (${response.status}): ${errorText}`
ServerErrorText(status, errorText) ==
  "Terminology server error (" \o ToString(status) \o "): " \o errorText

-----------------------------------------------------------------------------
(***************************************************************************)
(* The values the environment supplies                                     *)
(***************************************************************************)

SNOMED == <<"http", ":", "/", "/", "snomed.info", "/", "sct">>
LOINC == <<"http", ":", "/", "/", "loinc.org">>

\* The settings of TX_SERVER: unset, a FHIR base, empty, a base that lacks
\* its scheme.
Environments ==
  { [set |-> FALSE],
    [set |-> TRUE, value |-> [scheme |-> "https", rest |-> "tx.example.org/fhir"]],
    [set |-> TRUE, value |-> [scheme |-> "", rest |-> ""]],
    [set |-> TRUE, value |-> [scheme |-> "", rest |-> "tx.example.org/fhir"]] }

\* { filter, url } as the schema of lookup-code admits them.
LookupArgs ==
  [filter : { <<"hypertension">>, <<"left", " ", "quad">>,
              <<"a", "&", "version", "=", "1">> },
   url : { SNOMED \o <<"?", "fhir_vs">>, <<>> }]

\* { system, code, url, version? } as the schema of validate-code admits them.
ValidateArgs ==
  LET required == [system : {SNOMED, LOINC},
                   code : { <<"30371007">>, <<"a", "\"", "\\", "%", "26">> },
                   url : { LOINC \o <<"/", "vs">>,
                           <<"vs", "&", "version", "=", "9">> }]
  IN required \cup
     { [system |-> r.system, code |-> r.code, url |-> r.url, version |-> v] :
         r \in required, v \in { <<>>, <<"20250831">>, <<"1", "+", "2">> } }

\* What a rejected fetch, text() or json() throws.
Thrown == { [message |-> "request failed, reason: ECONNREFUSED"],
            [value |-> "boom"] }

\* What fetch settles with: a rejection or a response.
FetchOutcomes == { [error |-> e] : e \in Thrown } \cup [status : {200, 404, 500}]

\* What response.text() settles with.
TextOutcomes ==
  { [error |-> e] : e \in Thrown } \cup [text : {"", "ValueSet not found"}]

\* A JSON object as its members in order, each with a string value.
Codings ==
  { <<[key |-> "system", str |-> SNOMED], [key |-> "code", str |-> <<"38341003">>],
      [key |-> "display", str |-> <<"Hypertensive", " ", "disorder">>]>>,
    <<[key |-> "code", str |-> <<"12345">>],
      [key |-> "display", str |-> <<"Test", " ", "\"", "Code", "\"">>]>>,
    <<>> }

SeqsUpTo(S, n) == UNION { [1..k -> S] : k \in 0..n }

\* The entries of a Parameters resource.
ParameterEntries ==
  { [name |-> "result", valueBoolean |-> TRUE],
    [name |-> "result", valueBoolean |-> FALSE],
    [name |-> "result"],
    [name |-> "code", valueCode |-> <<"72133-2">>],
    [name |-> "code", valueString |-> <<"72133-2">>],
    [name |-> "system", valueUri |-> LOINC],
    [name |-> "version", valueString |-> <<"2.77">>],
    [name |-> "display", valueString |-> <<"Respiratory", " ", "rate">>] }

\* What response.json() settles with: a rejection (a body that is not JSON,
\* a broken stream), JSON null, or a resource.
JsonOutcomes ==
  { [error |-> e] : e \in Thrown } \cup
  { [json |-> [null |-> TRUE]],
    [json |-> [resourceType |-> "ValueSet"]],
    [json |-> [resourceType |-> "ValueSet", expansion |-> [total |-> 0]]],
    [json |-> [resourceType |-> "Parameters"]] } \cup
  { [json |-> [resourceType |-> "ValueSet", expansion |-> [contains |-> c]]] :
      c \in SeqsUpTo(Codings, MaxContains) } \cup
  { [json |-> [resourceType |-> "Parameters", parameter |-> ps]] :
      ps \in SeqsUpTo(ParameterEntries, MaxParams) }

\* All of it, as the actions take it.
Universe ==
  [lookupArgs |-> LookupArgs, validateArgs |-> ValidateArgs,
   fetched |-> FetchOutcomes, texts |-> TextOutcomes, jsons |-> JsonOutcomes]

-----------------------------------------------------------------------------
(***************************************************************************)
(* lookup-code                                                             *)
(***************************************************************************)

Free(i) == inv[i].pc \in {"idle", "returned", "threw"}

\* The catch block of lookup-code.
LookupCatch(error) ==
  ErrorResult("Error looking up codes: " \o ErrorText(error))

\* The handler up to its first await: the URL is built outside the try
\* block, so a TypeError of new URL leaves the handler; otherwise fetch is
\* called once.
LookupInvoke(i, U) ==
  /\ Free(i)
  /\ \E args \in U.lookupArgs :
       LET serverBase == ServerBase(TX_SERVER)
           made == NewURL(serverBase, "/ValueSet/$expand")
       IN IF Has(made, "error")
          THEN inv' = [inv EXCEPT ![i] =
                 [pc |-> "threw", tool |-> "lookup-code", args |-> args,
                  gets |-> 0, thrown |-> made.error]]
          ELSE LET u1 == [made.url EXCEPT !.searchParams =
                            SearchParamsSet(@, "url", args.url)]
                   expandUrl == [u1 EXCEPT !.searchParams =
                                   SearchParamsSet(@, "filter", args.filter)]
               IN inv' = [inv EXCEPT ![i] =
                    [pc |-> "fetch", tool |-> "lookup-code", args |-> args,
                     gets |-> 1, href |-> URLtoString(expandUrl)]]
  /\ UNCHANGED <<TX_SERVER, transport, requests>>

\* A variant that calls fetch again after a rejection or a status that is
\* not ok, up to three calls.
LookupFetchSettledRetry(i, U) ==
  /\ inv[i].pc = "fetch" /\ inv[i].tool = "lookup-code"
  /\ \E outcome \in U.fetched :
       IF (Has(outcome, "error") \/ ~ResponseOk(outcome)) /\ inv[i].gets < 3
       THEN inv' = [inv EXCEPT ![i].gets = @ + 1]
       ELSE IF Has(outcome, "error")
       THEN inv' = [inv EXCEPT ![i] =
              [pc |-> "returned", tool |-> @.tool, args |-> @.args,
               gets |-> @.gets, href |-> @.href, fetched |-> outcome,
               caught |-> TRUE, result |-> LookupCatch(outcome.error)]]
       ELSE inv' = [inv EXCEPT ![i] =
              [pc |-> IF ResponseOk(outcome) THEN "json" ELSE "text",
               tool |-> @.tool, args |-> @.args, gets |-> @.gets,
               href |-> @.href, fetched |-> outcome]]
  /\ UNCHANGED <<TX_SERVER, transport, requests>>

\* fetch settles: a rejection goes to the catch block, a response that is
\* not ok has its text read, an ok one its JSON.
LookupFetchSettled(i, U) ==
  /\ inv[i].pc = "fetch" /\ inv[i].tool = "lookup-code"
  /\ \E outcome \in U.fetched :
       IF Has(outcome, "error")
       THEN inv' = [inv EXCEPT ![i] =
              [pc |-> "returned", tool |-> @.tool, args |-> @.args,
               gets |-> @.gets, href |-> @.href, fetched |-> outcome,
               caught |-> TRUE, result |-> LookupCatch(outcome.error)]]
       ELSE inv' = [inv EXCEPT ![i] =
              [pc |-> IF ResponseOk(outcome) THEN "json" ELSE "text",
               tool |-> @.tool, args |-> @.args, gets |-> @.gets,
               href |-> @.href, fetched |-> outcome]]
  /\ UNCHANGED <<TX_SERVER, transport, requests>>

\* A variant in which `response` is one variable of the module, as
\* `transport` is in sse.ts: the status reported is that of the response
\* any invocation received last.
LookupTextSettledShared(i, U) ==
  /\ inv[i].pc = "text" /\ inv[i].tool = "lookup-code"
  /\ \E body \in U.texts :
       \E j \in { k \in DOMAIN inv : Has(inv[k], "fetched")
                                       /\ Has(inv[k].fetched, "status") } :
         inv' = [inv EXCEPT ![i] =
           [pc |-> "returned", tool |-> @.tool, args |-> @.args,
            gets |-> @.gets, href |-> @.href, fetched |-> @.fetched,
            read |-> body, caught |-> Has(body, "error"),
            result |-> IF Has(body, "error") THEN LookupCatch(body.error)
                       ELSE ErrorResult(ServerErrorText(inv[j].fetched.status,
                                                        body.text))]]
  /\ UNCHANGED <<TX_SERVER, transport, requests>>

\* response.text() settles on a response that is not ok.
LookupTextSettled(i, U) ==
  /\ inv[i].pc = "text" /\ inv[i].tool = "lookup-code"
  /\ \E body \in U.texts :
       inv' = [inv EXCEPT ![i] =
         [pc |-> "returned", tool |-> @.tool, args |-> @.args,
          gets |-> @.gets, href |-> @.href, fetched |-> @.fetched,
          read |-> body, caught |-> Has(body, "error"),
          result |-> IF Has(body, "error") THEN LookupCatch(body.error)
                     ELSE ErrorResult(ServerErrorText(@.fetched.status, body.text))]]
  /\ UNCHANGED <<TX_SERVER, transport, requests>>

\* A variant without optional chaining: result.expansion.contains.length.
LookupBodyUnchained(result) ==
  IF Has(result, "null")
  THEN [threw |->
          [message |-> "Cannot read properties of null (reading 'expansion')"]]
  ELSE IF ~Has(result, "expansion")
  THEN [threw |->
          [message |-> "Cannot read properties of undefined (reading 'contains')"]]
  ELSE IF ~Has(result.expansion, "contains")
  THEN [threw |->
          [message |-> "Cannot read properties of undefined (reading 'length')"]]
  ELSE IF Len(result.expansion.contains) = 0
  THEN [returns |-> TextResult("No matching codes found")]
  ELSE [returns |-> TextResult(JSONstringify(result.expansion.contains[1]))]

\* A variant that returns the last match.
LookupBodyLastMatch(result) ==
  IF Has(result, "null")
  THEN [threw |->
          [message |-> "Cannot read properties of null (reading 'expansion')"]]
  ELSE LET contains ==
             IF Has(result, "expansion") /\ Has(result.expansion, "contains")
             THEN result.expansion.contains ELSE <<>>
       IN IF Len(contains) = 0
          THEN [returns |-> TextResult("No matching codes found")]
          ELSE [returns |-> TextResult(JSONstringify(contains[Len(contains)]))]

\* The try block of lookup-code after response.json(): [threw] or [returns].
LookupBody(result) ==
  IF Has(result, "null")
  THEN [threw |->
          [message |-> "Cannot read properties of null (reading 'expansion')"]]
  ELSE LET contains ==
             IF Has(result, "expansion") /\ Has(result.expansion, "contains")
             THEN result.expansion.contains ELSE <<>>
       IN IF Len(contains) = 0
          THEN [returns |-> TextResult("No matching codes found")]
          ELSE LET firstMatch == contains[1]
               IN [returns |-> TextResult(JSONstringify(firstMatch))]

\* response.json() settles on an ok response.
LookupJsonSettled(i, U) ==
  /\ inv[i].pc = "json" /\ inv[i].tool = "lookup-code"
  /\ \E body \in U.jsons :
       LET done == IF Has(body, "error") THEN [threw |-> body.error]
                   ELSE LookupBody(body.json)
       IN inv' = [inv EXCEPT ![i] =
            [pc |-> "returned", tool |-> @.tool, args |-> @.args,
             gets |-> @.gets, href |-> @.href, fetched |-> @.fetched,
             read |-> body, caught |-> Has(done, "threw"),
             result |-> IF Has(done, "threw") THEN LookupCatch(done.threw)
                        ELSE done.returns]]
  /\ UNCHANGED <<TX_SERVER, transport, requests>>

-----------------------------------------------------------------------------
(***************************************************************************)
(* validate-code                                                           *)
(***************************************************************************)

\* The catch block of validate-code.
ValidateCatch(error) ==
  ErrorResult("Error validating code: " \o ErrorText(error))

\* A variant that tests version !== undefined.
VersionGivenIfDefined(args) == Has(args, "version")

\* if (version): an absent version and the empty string are both falsy.
VersionGiven(args) == Has(args, "version") /\ args.version # <<>>

\* The handler up to its first await: the URL is built outside the try
\* block; version joins the query only when it is truthy.
ValidateInvoke(i, U) ==
  /\ Free(i)
  /\ \E args \in U.validateArgs :
       LET serverBase == ServerBase(TX_SERVER)
           made == NewURL(serverBase, "/ValueSet/$validate-code")
       IN IF Has(made, "error")
          THEN inv' = [inv EXCEPT ![i] =
                 [pc |-> "threw", tool |-> "validate-code", args |-> args,
                  gets |-> 0, thrown |-> made.error]]
          ELSE LET q1 == SearchParamsSet(made.url.searchParams, "url", args.url)
                   q2 == SearchParamsSet(q1, "system", args.system)
                   q3 == SearchParamsSet(q2, "code", args.code)
                   q4 == IF VersionGiven(args)
                         THEN SearchParamsSet(q3, "version", args.version)
                         ELSE q3
                   validateUrl == [made.url EXCEPT !.searchParams = q4]
               IN inv' = [inv EXCEPT ![i] =
                    [pc |-> "fetch", tool |-> "validate-code", args |-> args,
                     gets |-> 1, href |-> URLtoString(validateUrl)]]
  /\ UNCHANGED <<TX_SERVER, transport, requests>>

\* fetch settles.
ValidateFetchSettled(i, U) ==
  /\ inv[i].pc = "fetch" /\ inv[i].tool = "validate-code"
  /\ \E outcome \in U.fetched :
       IF Has(outcome, "error")
       THEN inv' = [inv EXCEPT ![i] =
              [pc |-> "returned", tool |-> @.tool, args |-> @.args,
               gets |-> @.gets, href |-> @.href, fetched |-> outcome,
               caught |-> TRUE, result |-> ValidateCatch(outcome.error)]]
       ELSE inv' = [inv EXCEPT ![i] =
              [pc |-> IF ResponseOk(outcome) THEN "json" ELSE "text",
               tool |-> @.tool, args |-> @.args, gets |-> @.gets,
               href |-> @.href, fetched |-> outcome]]
  /\ UNCHANGED <<TX_SERVER, transport, requests>>

\* response.text() settles on a response that is not ok.
ValidateTextSettled(i, U) ==
  /\ inv[i].pc = "text" /\ inv[i].tool = "validate-code"
  /\ \E body \in U.texts :
       inv' = [inv EXCEPT ![i] =
         [pc |-> "returned", tool |-> @.tool, args |-> @.args,
          gets |-> @.gets, href |-> @.href, fetched |-> @.fetched,
          read |-> body, caught |-> Has(body, "error"),
          result |-> IF Has(body, "error") THEN ValidateCatch(body.error)
                     ELSE ErrorResult(ServerErrorText(@.fetched.status, body.text))]]
  /\ UNCHANGED <<TX_SERVER, transport, requests>>

\* result.parameter?.find((p) => p.name === name): <<>> for undefined,
\* otherwise the first entry of that name.
FindParam(result, name) ==
  IF ~Has(result, "parameter") THEN <<>>
  ELSE LET found == SelectSeq(result.parameter, LAMBDA p : p.name = name)
       IN IF found = <<>> THEN <<>> ELSE <<found[1]>>

\* param?.field: <<>> for undefined.
ParamField(param, field) ==
  IF param # <<>> /\ Has(param[1], field) THEN <<param[1][field]>> ELSE <<>>

\* A variant whose version falls back to the input's, as code and system do.
ValidationResultVersionFromInput(result, args) ==
  LET valid == ParamField(FindParam(result, "result"), "valueBoolean")
      code == ParamField(FindParam(result, "code"), "valueCode")
      system == ParamField(FindParam(result, "system"), "valueUri")
      version == ParamField(FindParam(result, "version"), "valueString")
      display == ParamField(FindParam(result, "display"), "valueString")
  IN << [key |-> "valid", bool |-> IF valid = <<>> THEN FALSE ELSE valid[1]],
        [key |-> "code", str |-> IF code = <<>> THEN args.code ELSE code[1]],
        [key |-> "system", str |-> IF system = <<>> THEN args.system ELSE system[1]],
        IF version # <<>> THEN [key |-> "version", str |-> version[1]]
        ELSE IF Has(args, "version") THEN [key |-> "version", str |-> args.version]
        ELSE [key |-> "version"],
        IF display = <<>> THEN [key |-> "display"]
        ELSE [key |-> "display", str |-> display[1]] >>

\* The object literal validationResult, as its members in order.
ValidationResult(result, args) ==
  LET resultParam == FindParam(result, "result")
      displayParam == FindParam(result, "display")
      codeParam == FindParam(result, "code")
      systemParam == FindParam(result, "system")
      versionParam == FindParam(result, "version")
      valid == ParamField(resultParam, "valueBoolean")
      code == ParamField(codeParam, "valueCode")
      system == ParamField(systemParam, "valueUri")
      version == ParamField(versionParam, "valueString")
      display == ParamField(displayParam, "valueString")
  IN << [key |-> "valid", bool |-> IF valid = <<>> THEN FALSE ELSE valid[1]],
        [key |-> "code", str |-> IF code = <<>> THEN args.code ELSE code[1]],
        [key |-> "system", str |-> IF system = <<>> THEN args.system ELSE system[1]],
        IF version = <<>> THEN [key |-> "version"]
        ELSE [key |-> "version", str |-> version[1]],
        IF display = <<>> THEN [key |-> "display"]
        ELSE [key |-> "display", str |-> display[1]] >>

\* A variant that flags a negative determination as an error.
ValidateBodyInvalidIsError(result, args) ==
  IF Has(result, "null")
  THEN [threw |->
          [message |-> "Cannot read properties of null (reading 'parameter')"]]
  ELSE LET validationResult == ValidationResult(result, args)
       IN IF validationResult[1].bool
          THEN [returns |-> TextResult(JSONstringify(validationResult))]
          ELSE [returns |-> ErrorResult(JSONstringify(validationResult))]

\* The try block of validate-code after response.json(): [threw] or [returns].
ValidateBody(result, args) ==
  IF Has(result, "null")
  THEN [threw |->
          [message |-> "Cannot read properties of null (reading 'parameter')"]]
  ELSE [returns |-> TextResult(JSONstringify(ValidationResult(result, args)))]

\* response.json() settles on an ok response.
ValidateJsonSettled(i, U) ==
  /\ inv[i].pc = "json" /\ inv[i].tool = "validate-code"
  /\ \E body \in U.jsons :
       LET done == IF Has(body, "error") THEN [threw |-> body.error]
                   ELSE ValidateBody(body.json, inv[i].args)
       IN inv' = [inv EXCEPT ![i] =
            [pc |-> "returned", tool |-> @.tool, args |-> @.args,
             gets |-> @.gets, href |-> @.href, fetched |-> @.fetched,
             read |-> body, caught |-> Has(done, "threw"),
             result |-> IF Has(done, "threw") THEN ValidateCatch(done.threw)
                        ELSE done.returns]]
  /\ UNCHANGED <<TX_SERVER, transport, requests>>

-----------------------------------------------------------------------------
(***************************************************************************)
(* The handlers, one invocation at a time                                  *)
(***************************************************************************)

InitHost ==
  /\ transport = [set |-> FALSE]
  /\ requests = <<>>

Init ==
  /\ TX_SERVER \in Environments
  /\ inv = [i \in 1..1 |-> [pc |-> "idle"]]
  /\ InitHost

Next ==
  \/ \E i \in DOMAIN inv : LookupInvoke(i, Universe)
  \/ \E i \in DOMAIN inv : LookupFetchSettled(i, Universe)
  \/ \E i \in DOMAIN inv : LookupTextSettled(i, Universe)
  \/ \E i \in DOMAIN inv : LookupJsonSettled(i, Universe)
  \/ \E i \in DOMAIN inv : ValidateInvoke(i, Universe)
  \/ \E i \in DOMAIN inv : ValidateFetchSettled(i, Universe)
  \/ \E i \in DOMAIN inv : ValidateTextSettled(i, Universe)
  \/ \E i \in DOMAIN inv : ValidateJsonSettled(i, Universe)

Spec == Init /\ [][Next]_vars

-----------------------------------------------------------------------------
(***************************************************************************)
(* The handlers under concurrent invocations.  An invocation is suspended  *)
(* at its awaits only, so each action above is one uninterrupted run.      *)
(***************************************************************************)

ConcUniverse ==
  [lookupArgs |-> { [filter |-> <<"hypertension">>, url |-> SNOMED \o <<"?", "fhir_vs">>] },
   validateArgs |-> { [system |-> LOINC, code |-> <<"72133-2">>, url |-> LOINC \o <<"/", "vs">>],
                      [system |-> SNOMED, code |-> <<"30371007">>, url |-> <<"vs">>,
                       version |-> <<"20250831">>] },
   fetched |-> { [error |-> [message |-> "request failed, reason: ECONNREFUSED"]],
                 [status |-> 200], [status |-> 404] },
   texts |-> { [error |-> [value |-> "boom"]], [text |-> "ValueSet not found"] },
   jsons |-> { [error |-> [message |-> "Unexpected token < in JSON at position 0"]],
               [json |-> [resourceType |-> "ValueSet", expansion |-> [contains |-> <<>>]]],
               [json |-> [resourceType |-> "ValueSet", expansion |->
                  [contains |-> <<<<[key |-> "code", str |-> <<"12345">>]>>>>]]],
               [json |-> [resourceType |-> "Parameters", parameter |->
                  <<[name |-> "result", valueBoolean |-> TRUE],
                    [name |-> "display", valueString |-> <<"Respiratory", " ", "rate">>]>>]] }]

InitConc ==
  /\ TX_SERVER \in Environments
  /\ inv = [i \in 1..MaxInv |-> [pc |-> "idle"]]
  /\ InitHost

NextConc ==
  \/ \E i \in DOMAIN inv : LookupInvoke(i, ConcUniverse)
  \/ \E i \in DOMAIN inv : LookupFetchSettled(i, ConcUniverse)
  \/ \E i \in DOMAIN inv : LookupTextSettled(i, ConcUniverse)
  \/ \E i \in DOMAIN inv : LookupJsonSettled(i, ConcUniverse)
  \/ \E i \in DOMAIN inv : ValidateInvoke(i, ConcUniverse)
  \/ \E i \in DOMAIN inv : ValidateFetchSettled(i, ConcUniverse)
  \/ \E i \in DOMAIN inv : ValidateTextSettled(i, ConcUniverse)
  \/ \E i \in DOMAIN inv : ValidateJsonSettled(i, ConcUniverse)

SpecConc == InitConc /\ [][NextConc]_vars

-----------------------------------------------------------------------------
(***************************************************************************)
(* The SSE host                                                            *)
(***************************************************************************)

Clients == {"c1", "c2"}

\* A variant that keeps the transport of the first connection.
GetSseKeepFirst(c) ==
  /\ Len(requests) < MaxEvents
  /\ LET id == Cardinality({k \in 1..Len(requests) : requests[k].route = "/sse"}) + 1
     IN /\ transport' = IF transport.set THEN transport
                        ELSE [set |-> TRUE, id |-> id]
        /\ requests' = Append(requests, [route |-> "/sse", client |-> c, made |-> id])
  /\ UNCHANGED <<TX_SERVER, inv>>

\* app.get("/sse"): a new transport over this client's response replaces
\* the module-level one.
GetSse(c) ==
  /\ Len(requests) < MaxEvents
  /\ LET id == Cardinality({k \in 1..Len(requests) : requests[k].route = "/sse"}) + 1
     IN /\ transport' = [set |-> TRUE, id |-> id]
        /\ requests' = Append(requests, [route |-> "/sse", client |-> c, made |-> id])
  /\ UNCHANGED <<TX_SERVER, inv>>

\* app.post("/messages"): the module-level transport handles the message;
\* while it is undefined the call on it is a TypeError.
PostMessages(c) ==
  /\ Len(requests) < MaxEvents
  /\ requests' = Append(requests,
       IF transport.set
       THEN [route |-> "/messages", client |-> c, handledBy |-> transport.id]
       ELSE [route |-> "/messages", client |-> c,
             error |-> [message |->
               "Cannot read properties of undefined (reading 'handlePostMessage')"]])
  /\ UNCHANGED <<TX_SERVER, inv, transport>>

InitSSE ==
  /\ TX_SERVER = [set |-> FALSE]
  /\ inv = [i \in 1..1 |-> [pc |-> "idle"]]
  /\ InitHost

NextSSE == \E c \in Clients : GetSse(c) \/ PostMessages(c)

SpecSSE == InitSSE /\ [][NextSSE]_vars

-----------------------------------------------------------------------------
(***************************************************************************)
(* Properties                                                              *)
(***************************************************************************)

Returned(i) == inv[i].pc = "returned"
Lookup(i) == inv[i].tool = "lookup-code"
Validate(i) == inv[i].tool = "validate-code"
ResultText(i) == inv[i].result.content[1].text
IsErrorSet(i) == Has(inv[i].result, "isError")

\* The prefix of the catch block's message, by tool.
CatchPrefix(i) ==
  IF Lookup(i) THEN "Error looking up codes: " ELSE "Error validating code: "

\* The remote call produced a response whose status is not a success.
NonSuccess(i) ==
  /\ Has(inv[i], "fetched")
  /\ Has(inv[i].fetched, "status")
  /\ ~(inv[i].fetched.status \in 200..299)

\* The body was read: text() or json() settled with a value.
BodyRead(i) == Has(inv[i], "read") /\ ~Has(inv[i].read, "error")

\* The body read is a JSON object (not null).
JsonObjectRead(i) ==
  /\ BodyRead(i)
  /\ Has(inv[i].read, "json")
  /\ ~Has(inv[i].read.json, "null")

\* What was thrown inside the try block, as a set of at most one value:
\* a rejected fetch, a rejected body read, or the property access on a
\* null body.
RaisedIn(i) ==
  IF Has(inv[i], "fetched") /\ Has(inv[i].fetched, "error")
  THEN {inv[i].fetched.error}
  ELSE IF Has(inv[i], "read") /\ Has(inv[i].read, "error")
  THEN {inv[i].read.error}
  ELSE IF Has(inv[i], "read") /\ Has(inv[i].read, "json")
          /\ Has(inv[i].read.json, "null")
  THEN {[message |-> "Cannot read properties of null (reading '"
                       \o (IF Lookup(i) THEN "expansion" ELSE "parameter") \o "')"]}
  ELSE {}

\* C1: no exception escapes a handler: every invocation, with any input and
\* any configured base URL, ends by returning one Tool Response, and a
\* failure raised on the way gives isError = true with the text
\* 'Error looking up codes: {message}' or 'Error validating code: {message}'.
C1_NoExceptionEscapes ==
  \A i \in DOMAIN inv :
    /\ inv[i].pc # "threw"
    /\ Returned(i) =>
         \A e \in RaisedIn(i) :
           /\ IsErrorSet(i)
           /\ ResultText(i) = CatchPrefix(i) \o ErrorText(e)

\* C2: a returned Tool Response has isError set if and only if the remote
\* call returned a non-success status or an exception was raised; a lookup
\* with zero matches and a validation with valid = false have it unset.
C2_IsErrorIffFailure ==
  \A i \in DOMAIN inv :
    Returned(i) =>
      /\ IsErrorSet(i) <=> (NonSuccess(i) \/ RaisedIn(i) # {})
      /\ IsErrorSet(i) => inv[i].result.isError = TRUE
      /\ inv[i].caught <=> RaisedIn(i) # {}

\* A validation whose response says result = false has returned.
C2_Witness ==
  \E i \in DOMAIN inv :
    /\ Returned(i) /\ Validate(i) /\ JsonObjectRead(i)
    /\ Has(inv[i].read.json, "parameter")
    /\ inv[i].read.json.parameter = <<[name |-> "result", valueBoolean |-> FALSE]>>
    /\ ~IsErrorSet(i)

\* The texts a body can be read as.
BodyTexts == { b.text : b \in { t \in TextOutcomes : Has(t, "text") } }

\* C3 as stated: on a non-2xx status the response has isError = true and
\* the text 'Terminology server error (<status>): <body>', whatever happens
\* while the body is read.
C3_AlwaysServerErrorText ==
  \A i \in DOMAIN inv :
    (Returned(i) /\ NonSuccess(i)) =>
      /\ IsErrorSet(i)
      /\ \E body \in BodyTexts :
           ResultText(i) = "Terminology server error ("
                             \o ToString(inv[i].fetched.status) \o "): " \o body

\* C3 amended: on a non-2xx status the response has isError = true; its
\* text is 'Terminology server error (<status>): <body>' when the body was
\* read, and the catch block's 'Error ...: {message}' when reading it threw.
C3_ServerErrorTextWhenBodyRead ==
  \A i \in DOMAIN inv :
    (Returned(i) /\ NonSuccess(i)) =>
      /\ IsErrorSet(i)
      /\ BodyRead(i) =>
           ResultText(i) = "Terminology server error ("
                             \o ToString(inv[i].fetched.status) \o "): "
                             \o inv[i].read.text
      /\ ~BodyRead(i) =>
           \E e \in RaisedIn(i) : ResultText(i) = CatchPrefix(i) \o ErrorText(e)

\* A 404 whose body was read has been answered.
C3_Witness ==
  \E i \in DOMAIN inv :
    /\ Returned(i) /\ NonSuccess(i) /\ BodyRead(i)
    /\ inv[i].fetched.status = 404
    /\ inv[i].read.text = "ValueSet not found"

\* The match list of the body read: empty when expansion or contains is
\* missing.
MatchList(i) ==
  LET json == inv[i].read.json
  IN IF Has(json, "expansion") /\ Has(json.expansion, "contains")
     THEN json.expansion.contains ELSE <<>>

\* C4: a lookup whose call succeeds and whose body (a JSON object) has no
\* expansion, no expansion.contains or contains = [] returns exactly
\* 'No matching codes found' with isError unset.
C4_NoMatches ==
  \A i \in DOMAIN inv :
    (Returned(i) /\ Lookup(i) /\ JsonObjectRead(i) /\ MatchList(i) = <<>>) =>
      /\ ResultText(i) = "No matching codes found"
      /\ ~IsErrorSet(i)

\* A lookup whose body has no expansion at all has returned.
C4_Witness ==
  \E i \in DOMAIN inv :
    /\ Returned(i) /\ Lookup(i) /\ JsonObjectRead(i)
    /\ ~Has(inv[i].read.json, "expansion")

\* C5: a lookup whose call succeeds with a non-empty match list returns the
\* pretty-printed JSON of the first element only, whatever the length of
\* the list and its later elements, with isError unset.
C5_FirstMatchOnly ==
  \A i \in DOMAIN inv :
    (Returned(i) /\ Lookup(i) /\ JsonObjectRead(i) /\ MatchList(i) # <<>>) =>
      /\ ResultText(i) = JSONstringify(Head(MatchList(i)))
      /\ ~IsErrorSet(i)

\* A lookup whose body lists two different codings has returned.
C5_Witness ==
  \E i \in DOMAIN inv :
    /\ Returned(i) /\ Lookup(i) /\ JsonObjectRead(i)
    /\ Len(MatchList(i)) >= 2
    /\ MatchList(i)[2] # MatchList(i)[1]

\* The entries of the body read, and the first entry of a name.
Entries(i) ==
  IF Has(inv[i].read.json, "parameter") THEN inv[i].read.json.parameter ELSE <<>>

Named(list, name) == { k \in 1..Len(list) : list[k].name = name }

FirstNamed(list, name) ==
  CHOOSE k \in Named(list, name) : \A j \in Named(list, name) : k <= j

\* The response carries `field` in its (first) entry called `name`.
Carries(i, name, field) ==
  /\ Named(Entries(i), name) # {}
  /\ Has(Entries(i)[FirstNamed(Entries(i), name)], field)

Carried(i, name, field) == Entries(i)[FirstNamed(Entries(i), name)][field]

\* The Validation Result the claim describes, as members in order.
Projection(i) ==
  << [key |-> "valid",
      bool |-> Carries(i, "result", "valueBoolean")
                 /\ Carried(i, "result", "valueBoolean")],
     [key |-> "code",
      str |-> IF Carries(i, "code", "valueCode")
              THEN Carried(i, "code", "valueCode") ELSE inv[i].args.code],
     [key |-> "system",
      str |-> IF Carries(i, "system", "valueUri")
              THEN Carried(i, "system", "valueUri") ELSE inv[i].args.system] >>
  \o (IF Carries(i, "version", "valueString")
      THEN <<[key |-> "version", str |-> Carried(i, "version", "valueString")]>>
      ELSE <<>>)
  \o (IF Carries(i, "display", "valueString")
      THEN <<[key |-> "display", str |-> Carried(i, "display", "valueString")]>>
      ELSE <<>>)

\* C6: a successful validation returns the projection of the response by
\* parameter name: valid is the result parameter's boolean or false, code
\* and system are the response's or else the request's own, version and
\* display are the response's or else absent (version never the input's).
C6_Projection ==
  \A i \in DOMAIN inv :
    (Returned(i) /\ Validate(i) /\ JsonObjectRead(i)) =>
      /\ ResultText(i) = JSONstringify(Projection(i))
      /\ ~IsErrorSet(i)

\* A validation that was given a version has returned on a response that
\* names neither result, code, system nor version.
C6_Witness ==
  \E i \in DOMAIN inv :
    /\ Returned(i) /\ Validate(i) /\ JsonObjectRead(i)
    /\ Has(inv[i].args, "version") /\ inv[i].args.version # <<>>
    /\ Entries(i) # <<>>
    /\ \A n \in {"result", "code", "system", "version"} : Named(Entries(i), n) = {}

\* The query of a URL as the server reads it: split at "&", each part at
\* its first "=", "+" and percent-escapes decoded.
RECURSIVE Split(_, _)
Split(cs, sep) ==
  IF \A k \in 1..Len(cs) : cs[k] # sep THEN <<cs>>
  ELSE LET k == CHOOSE k \in 1..Len(cs) :
                  cs[k] = sep /\ \A j \in 1..(k - 1) : cs[j] # sep
       IN <<SubSeq(cs, 1, k - 1)>> \o Split(SubSeq(cs, k + 1, Len(cs)), sep)

RECURSIVE FormDecode(_)
FormDecode(cs) ==
  IF cs = <<>> THEN <<>>
  ELSE IF Head(cs) = "+" THEN <<" ">> \o FormDecode(Tail(cs))
  ELSE IF /\ Head(cs) = "%" /\ Len(cs) >= 2
          /\ \E c \in DOMAIN PercentCode : PercentCode[c] = cs[2]
  THEN <<CHOOSE c \in DOMAIN PercentCode : PercentCode[c] = cs[2]>>
         \o FormDecode(SubSeq(cs, 3, Len(cs)))
  ELSE <<Head(cs)>> \o FormDecode(Tail(cs))

ParseQuery(search) ==
  LET parts == SelectSeq(Split(search, "&"), LAMBDA part : part # <<>>)
  IN [k \in 1..Len(parts) |->
        LET halves == Split(parts[k], "=")
            rest == SubSeq(parts[k], Len(halves[1]) + 2, Len(parts[k]))
        IN [name |-> Join(FormDecode(halves[1])), value |-> FormDecode(rest)]]

\* The text of the configured base URL.
BaseText ==
  IF TX_SERVER.set THEN TX_SERVER.value.scheme \o "://" \o TX_SERVER.value.rest
  ELSE "https://tx.ontoserver.csiro.au/fhir"

\* C7: the GET of a validation goes to {base}/ValueSet/$validate-code with
\* url, system and code set to the input values; it has a version parameter
\* only if the input had a version, and then never an empty one.
C7_ValidateQuery ==
  \A i \in DOMAIN inv :
    (Has(inv[i], "href") /\ Validate(i)) =>
      LET q == ParseQuery(inv[i].href.search)
      IN /\ inv[i].href.resource = BaseText \o "/ValueSet/$validate-code"
         /\ \A k \in 1..Len(q) : q[k].name \in {"url", "system", "code", "version"}
         /\ \A n \in {"url", "system", "code"} :
              /\ Cardinality(Named(q, n)) = 1
              /\ \A k \in Named(q, n) : q[k].value = inv[i].args[n]
         /\ Named(q, "version") # {} => Has(inv[i].args, "version")
         /\ \A k \in Named(q, "version") :
              q[k].value # <<>> /\ q[k].value = inv[i].args.version

\* A validation without a version, whose url contains "&version=", has made
\* its GET.
C7_Witness ==
  \E i \in DOMAIN inv :
    /\ Has(inv[i], "href") /\ Validate(i)
    /\ ~Has(inv[i].args, "version")
    /\ inv[i].args.url = <<"vs", "&", "version", "=", "9">>

\* Two invocations had the same tool, input and outcome of their call.
SameCall(i, j) ==
  /\ inv[i].tool = inv[j].tool
  /\ inv[i].args = inv[j].args
  /\ inv[i].fetched = inv[j].fetched
  /\ Has(inv[i], "read") = Has(inv[j], "read")
  /\ Has(inv[i], "read") => inv[i].read = inv[j].read

\* C8: an invocation makes exactly one outbound GET before it returns its
\* Tool Response, never a second one after a non-success status or an
\* exception, and the response is determined by the outcome of that call.
C8_ExactlyOneGet ==
  \A i \in DOMAIN inv :
    /\ Has(inv[i], "gets") => inv[i].gets <= 1
    /\ Returned(i) => inv[i].gets = 1
    /\ \A j \in DOMAIN inv :
         (Returned(i) /\ Returned(j) /\ SameCall(i, j)) =>
            inv[i].result = inv[j].result

\* Two invocations have returned on the same failed call.
C8_Witness ==
  \E i, j \in DOMAIN inv :
    /\ i # j /\ Returned(i) /\ Returned(j) /\ SameCall(i, j)
    /\ NonSuccess(i) /\ ~BodyRead(i)
    /\ inv[i].gets = 1

\* What invocation i returns when it runs alone with its input, the
\* configured base URL and the outcome of its own call.
Alone(i) ==
  LET run == inv[i]
      catch(e) == IF Lookup(i) THEN LookupCatch(e) ELSE ValidateCatch(e)
  IN IF Has(run.fetched, "error") THEN catch(run.fetched.error)
     ELSE IF Has(run.read, "error") THEN catch(run.read.error)
     ELSE IF ~ResponseOk(run.fetched)
     THEN ErrorResult(ServerErrorText(run.fetched.status, run.read.text))
     ELSE LET done == IF Lookup(i) THEN LookupBody(run.read.json)
                      ELSE ValidateBody(run.read.json, run.args)
          IN IF Has(done, "threw") THEN catch(done.threw) ELSE done.returns

\* C9: under any interleaving of concurrent invocations, each invocation's
\* Tool Response is the one it produces when run alone with the same input
\* and the same outcome of its own call.
C9_AsIfAlone ==
  \A i \in DOMAIN inv : Returned(i) => inv[i].result = Alone(i)

\* An invocation has returned on a 404 while another one, of the other
\* tool, is suspended on the body of a 200.
C9_Witness ==
  \E i, j \in DOMAIN inv :
    /\ i # j /\ Returned(i) /\ NonSuccess(i) /\ BodyRead(i)
    /\ inv[j].pc = "json" /\ inv[j].tool # inv[i].tool

\* The GET /sse requests served before request k.
SseBefore(k) == { j \in 1..(k - 1) : requests[j].route = "/sse" }

Latest(S) == CHOOSE j \in S : \A m \in S : m <= j

\* C10: every POST /messages is handled by the transport of the most recent
\* GET /sse, whichever client sent it, and a POST that arrives before any
\* GET /sse finds no transport.
C10_LatestTransportHandles ==
  \A k \in 1..Len(requests) :
    requests[k].route = "/messages" =>
      IF SseBefore(k) = {} THEN Has(requests[k], "error")
      ELSE /\ Has(requests[k], "handledBy")
           /\ requests[k].handledBy = requests[Latest(SseBefore(k))].made

\* A client that connected first has its POST handled by the transport of
\* a client that connected later.
C10_Witness ==
  \E k \in 1..Len(requests) :
    /\ requests[k].route = "/messages"
    /\ Cardinality(SseBefore(k)) >= 2
    /\ \E j \in SseBefore(k) : requests[j].client = requests[k].client
    /\ requests[Latest(SseBefore(k))].client # requests[k].client
    /\ requests[k].handledBy = requests[Latest(SseBefore(k))].made

=============================================================================
